---- MODULE Spec2Model ----
(***************************************************************************)
(* Model of the multi-provider search dispatcher                           *)
(* (backend/server/search_providers.py): the provider registry, the        *)
(* monthly usage ledger persisted in search_usage.json, the round-robin    *)
(* cursor, and SearchProviderManager.search with its focus-mode            *)
(* preference and failure fallback chain.  Several requests may overlap;   *)
(* each one suspends only at its awaited provider calls.                   *)
(***************************************************************************)
EXTENDS Integers, Sequences, FiniteSets, TLC

\* ------------------------------------------------------------------ bounds
MaxReq   == 2      \* overlapping request handlers
MaxCalls == 2      \* search calls started over one run of overlapping requests
MaxSeqCalls == 4   \* search calls started over one run of requests served in turn
MaxMonth == 2      \* calendar months the clock passes through (1..MaxMonth)
MaxStreamCalls == 2 \* /quick-search requests served in turn
MaxLines == 3      \* lines one Ollama response stream delivers

Req == 1..MaxReq

\* --------------------------------------------------------------- constants
None        == -1      \* SearchProvider.limit = None (unlimited)
TavilyLimit == 1000
BraveLimit  == 2000
SerperLimit == 2500

\* SearchProvider dataclass; used starts at 0
SearchProvider(id, ptype, limit) ==
    [id |-> id, provider_type |-> ptype, limit |-> limit, used |-> 0]

\* os.environ as read by _init_providers: is SEARX_URL set, and how many
\* non-blank keys each *_API_KEYS list holds
Envs ==
    { [searx |-> FALSE, tavily |-> 0, brave |-> 0, serper |-> 0],
      [searx |-> TRUE,  tavily |-> 0, brave |-> 0, serper |-> 0],
      [searx |-> TRUE,  tavily |-> 1, brave |-> 0, serper |-> 0],
      [searx |-> FALSE, tavily |-> 1, brave |-> 0, serper |-> 0],
      [searx |-> FALSE, tavily |-> 1, brave |-> 1, serper |-> 1] }

KeyId(kind, i) ==
    IF i = 1 THEN kind \o "_1" ELSE kind \o "_2"

Keyed(kind, n, limit) ==
    [i \in 1..n |-> SearchProvider(KeyId(kind, i), kind, limit)]

\* _init_providers: searxng first, then one provider per key, kind by kind
init_providers(env) ==
    (IF env.searx THEN <<SearchProvider("searxng", "searxng", None)>> ELSE <<>>)
    \o Keyed("tavily", env.tavily, TavilyLimit)
    \o Keyed("brave", env.brave, BraveLimit)
    \o Keyed("serper", env.serper, SerperLimit)

\* A registry holding the two unlimited backend kinds the dispatch code
\* knows (searxng and ddg); search still branches on "ddg".
DdgRegistry ==
    << SearchProvider("searxng", "searxng", None),
       SearchProvider("ddg", "ddg", None) >>

Registries == { init_providers(e) : e \in Envs } \cup { DdgRegistry }

\* --------------------------------------------------------------- the store
NoData  == [status |-> "missing", month |-> 0, usage |-> <<>>]
BadData == [status |-> "bad",     month |-> 0, usage |-> <<>>]

Limited(provs) == { i \in 1..Len(provs) : provs[i].limit # None }
LimitedIds(provs) == { provs[i].id : i \in Limited(provs) }

\* a counter a previous run may have left for a provider with this limit:
\* untouched, one short of the limit, or at the limit
UsedChoice(limit, c) ==
    IF c = "zero" THEN 0 ELSE IF c = "near" THEN limit - 1 ELSE limit

Snapshot(provs, m, c) ==
    [status |-> "ok", month |-> m,
     usage |-> [id \in LimitedIds(provs) |->
                   LET i == CHOOSE j \in 1..Len(provs) : provs[j].id = id
                   IN  UsedChoice(provs[i].limit, c[i])]]

\* the counters of the stored snapshots: all providers alike, or the first
\* limited provider at its limit and the others untouched
UsagePatterns(provs) ==
    { [i \in 1..Len(provs) |-> c] : c \in {"zero", "near", "full"} }
    \cup { [i \in 1..Len(provs) |->
              IF \A j \in Limited(provs) : i <= j THEN "full" ELSE "zero"] }

\* contents search_usage.json may have before the manager is constructed:
\* absent, unreadable/malformed, a snapshot an earlier run wrote this
\* month (cur), or one it wrote in the month before
StoredFiles(provs, cur) ==
    {NoData, BadData}
    \cup { Snapshot(provs, cur, c) : c \in UsagePatterns(provs) }
    \cup { Snapshot(provs, cur - 1, [i \in 1..Len(provs) |-> "full"]) }

\* ------------------------------------------------------------------- state
VARIABLES
    config,         \* the registry _init_providers builds (fixed per run)
    constructed,    \* _manager is not None
    providers,      \* self.providers, with the used counters
    current_index,  \* self.current_index, the round-robin cursor
    file,           \* contents of USAGE_FILE
    now,            \* datetime.now().strftime("%Y-%m"), as a month number
    nsaves,         \* number of _save_usage calls made
    lastSave,       \* the data dict the last _save_usage call built
    req,            \* per handler: position in search and its locals
    last,           \* outcome of the search call that completed last
    ncalls,         \* number of search calls started
    selLog,         \* one entry per _get_next_provider call, in order
    qpc,            \* position of the quick_search handler
    events,         \* the events generate_response has yielded, in order
    stream,         \* what the Ollama response stream has delivered so far
    frags,          \* the fragments stream_ollama_response has yielded
    gen,            \* state of the stream_ollama_response generator
    disconnected,   \* what req.is_disconnected() answers
    discAt,         \* number of events yielded when the client went away
    conversation,   \* request.conversation_history, as dicts
    history_text,   \* the history lines stream_ollama_response puts in the prompt
    hpc,            \* has stream_ollama_response built the history text
    sources,        \* the list search_multi_provider returned to quick_search
    sent,           \* the sources event as serialised, once it is yielded
    sources_text,   \* the citation lines stream_ollama_response puts in the prompt
    spc,            \* how far the request has carried its sources
    stats           \* the last answer of GET /search-usage

dvars == << config, constructed, providers, current_index, file, now, nsaves,
            lastSave, req, last, ncalls, selLog >>

pvars == << qpc, events, stream, frags, gen, disconnected, discAt >>

hvars == << conversation, history_text, hpc, sources, sent, sources_text,
            spc >>

vars == << dvars, pvars, hvars, stats >>

\* ------------------------------------------------------------ the ledger
\* data.get("usage", {}).get(provider.id, 0)
UsageGet(data, id) ==
    IF id \in DOMAIN data.usage THEN data.usage[id] ELSE 0

\* the snapshot listing every provider, unlimited ones included
save_usage_all(provs, month) ==
    [status |-> "ok", month |-> month,
     usage |-> [id \in { provs[i].id : i \in 1..Len(provs) } |->
                   LET i == CHOOSE j \in 1..Len(provs) : provs[j].id = id
                   IN  provs[i].used]]

\* _save_usage: the snapshot it builds
save_usage(provs, month) ==
    [status |-> "ok", month |-> month,
     usage |-> [id \in LimitedIds(provs) |->
                   LET i == CHOOSE j \in 1..Len(provs) : provs[j].id = id
                   IN  provs[i].used]]

\* what the store may hold after _save_usage tried to write data over old:
\* the snapshot, the old contents (open failed), or a truncated file
\* (the dump failed part-way); the error is swallowed in every case
Written(old, data) == {data, old, BadData}

\* _load_usage restoring the stored counters whatever month they carry
load_usage_stale(provs, data, month) ==
    IF data.status = "ok"
    THEN [i \in 1..Len(provs) |->
             [provs[i] EXCEPT !.used = UsageGet(data, provs[i].id)]]
    ELSE provs

\* _load_usage counting an unreadable store as every quota spent
load_usage_blocked(provs, data, month) ==
    IF data.status = "ok" /\ data.month = month
    THEN [i \in 1..Len(provs) |->
             [provs[i] EXCEPT !.used = UsageGet(data, provs[i].id)]]
    ELSE IF data.status = "bad"
    THEN [i \in 1..Len(provs) |->
             [provs[i] EXCEPT !.used =
                 IF provs[i].limit = None THEN 0 ELSE provs[i].limit]]
    ELSE provs

\* _load_usage looking the counters up under the provider kind, not the id
\* _save_usage stores them under
load_usage_bytype(provs, data, month) ==
    IF data.status = "ok" /\ data.month = month
    THEN [i \in 1..Len(provs) |->
             [provs[i] EXCEPT !.used = UsageGet(data, provs[i].provider_type)]]
    ELSE provs

\* _load_usage: the counters after loading data in month `month`
load_usage(provs, data, month) ==
    IF data.status = "ok" /\ data.month = month
    THEN [i \in 1..Len(provs) |->
             [provs[i] EXCEPT !.used = UsageGet(data, provs[i].id)]]
    ELSE provs

\* _load_usage saves at once when the stored month is not the current one
LoadSaves(data, month) == data.status = "ok" /\ data.month # month

\* provider.used += 2
RecordUse_twice(provs, i) == [provs EXCEPT ![i].used = @ + 2]

\* provider.used += 1
RecordUse(provs, i) == [provs EXCEPT ![i].used = @ + 1]

\* `if results`: a use recorded whether or not the provider has a limit
ShouldRecord_always(p, results) == results = "results"

\* `if provider.limit and results`
ShouldRecord(p, results) == p.limit # None /\ p.limit # 0 /\ results = "results"

\* -------------------------------------------------------------- selection
\* next((j for p in providers if p.provider_type == t), None); 0 for None
FirstOfType(provs, t) ==
    LET S == { i \in 1..Len(provs) : provs[i].provider_type = t }
    IN  IF S = {} THEN 0 ELSE CHOOSE i \in S : \A j \in S : i <= j

RECURSIVE NextFrom(_, _, _)
NextFrom(provs, cur, attempts) ==
    IF attempts >= Len(provs)
    THEN [idx |-> FirstOfType(provs, "searxng"), cursor |-> cur, post |-> TRUE]
    ELSE LET i == (cur % Len(provs)) + 1
             p == provs[i]
         IN  IF p.limit = None
             THEN [idx |-> i, cursor |-> cur + 1, post |-> FALSE]
             ELSE IF p.used >= p.limit
                  THEN NextFrom(provs, cur + 1, attempts + 1)
                  ELSE [idx |-> i, cursor |-> cur + 1, post |-> FALSE]

\* _get_next_provider with the cursor left where it was
get_next_provider_stuck(provs, cur) ==
    [NextFrom(provs, cur, 0) EXCEPT !.cursor = cur]

\* _get_next_provider skipping only when used > limit
RECURSIVE NextFromOver(_, _, _)
NextFromOver(provs, cur, attempts) ==
    IF attempts >= Len(provs)
    THEN [idx |-> FirstOfType(provs, "searxng"), cursor |-> cur, post |-> TRUE]
    ELSE LET i == (cur % Len(provs)) + 1
             p == provs[i]
         IN  IF p.limit # None /\ p.used > p.limit
             THEN NextFromOver(provs, cur + 1, attempts + 1)
             ELSE [idx |-> i, cursor |-> cur + 1, post |-> FALSE]

get_next_provider_over(provs, cur) == NextFromOver(provs, cur, 0)

\* _get_next_provider handing out the first provider when all are exhausted
get_next_provider_first(provs, cur) ==
    LET g == NextFrom(provs, cur, 0) IN
    IF g.idx = 0 /\ Len(provs) > 0 THEN [g EXCEPT !.idx = 1] ELSE g

\* _get_next_provider passing over the providers without a limit in its
\* loop, leaving them to the final next(...)
RECURSIVE NextFromLimited(_, _, _)
NextFromLimited(provs, cur, attempts) ==
    IF attempts >= Len(provs)
    THEN [idx |-> FirstOfType(provs, "searxng"), cursor |-> cur, post |-> TRUE]
    ELSE LET i == (cur % Len(provs)) + 1
             p == provs[i]
         IN  IF p.limit = None \/ p.used >= p.limit
             THEN NextFromLimited(provs, cur + 1, attempts + 1)
             ELSE [idx |-> i, cursor |-> cur + 1, post |-> FALSE]

get_next_provider_limited(provs, cur) == NextFromLimited(provs, cur, 0)

\* _get_next_provider: the provider index returned (0 = StopIteration
\* raised by the final next(...)) and the cursor afterwards
get_next_provider(provs, cur) == NextFrom(provs, cur, 0)

\* ------------------------------------------------------------------ search
\* every focus mode treated as filtered
filtered_modes_all == {"quick", "reddit", "news", "shopping"}

filtered_modes == {"reddit", "news", "shopping"}
\* focus modes the requests of a run ask for
Modes == {"quick", "news"}

\* outcomes of one awaited provider call: a non-empty list, an empty list
\* (non-200 status or no hits), or an exception
Outcomes == {"results", "empty", "raise"}

\* a request handler inside search(): pc is its position; mode, provider
\* and alt are the locals focus_mode, provider and alt_provider; got is the
\* outcome of the call it awaited last
Idle == [pc |-> "idle", mode |-> "quick", provider |-> 0, alt |-> 0,
         got |-> "none"]

\* what the last completed search() call gave its caller: the path it took
\* (via; "raised" when an exception left search), the provider whose list
\* it returned (src), the kind of list (results), and the locals at that
\* moment
NoCall == [via |-> "none", src |-> 0, results |-> "empty", mode |-> "quick",
           provider |-> 0, got |-> "none"]

\* an empty list handled like an exception
TriggersFallback_empty(o) == o # "results"

\* `except Exception` (line 221): the failure fallback chain runs only
\* when the chosen provider's call raised
TriggersFallback(o) == o = "raise"

\* fallback step 1 never taken
UseSearxFallback_never(provs, failed) == FALSE

\* fallback step 1 applies
UseSearxFallback(provs, failed) ==
    FirstOfType(provs, "searxng") # 0 /\ provs[failed].id # "searxng"

\* the alternative-provider scan from position `from`: the first provider
\* whose call is awaited, 0 when the loop ends
RECURSIVE ScanFrom(_, _, _)
ScanFrom(provs, failed, from) ==
    IF from > Len(provs) THEN 0
    ELSE LET a == provs[from] IN
         IF /\ a.id # provs[failed].id
            /\ a.provider_type \notin {"searxng", "ddg"}
            /\ (a.limit = None \/ a.used < a.limit)
            /\ a.provider_type \in {"tavily", "serper", "exa"}
         THEN from
         ELSE ScanFrom(provs, failed, from + 1)

\* ------------------------------------------------------------ construction
\* SearchProviderManager.__init__ on the first get_search_manager() call:
\* the counters _load_usage leaves in self.providers
ManagerProviders ==
    IF constructed THEN providers ELSE load_usage(config, file, now)

\* the store after get_search_manager(): untouched, unless this call
\* constructs the manager and _load_usage saves the month reset
ManagerFiles ==
    IF ~constructed /\ LoadSaves(file, now)
    THEN Written(file, save_usage(config, now))
    ELSE {file}

\* get_search_manager(): construct the singleton when it does not exist yet
GetManager(f1) ==
    /\ constructed' = TRUE
    /\ file' = f1
    /\ IF ~constructed /\ LoadSaves(file, now)
       THEN /\ nsaves' = nsaves + 1
            /\ lastSave' = save_usage(config, now)
       ELSE UNCHANGED << nsaves, lastSave >>

\* no /quick-search request has been received
PipelineOff ==
    /\ qpc = "init"
    /\ events = << >>
    /\ stream = << >>
    /\ frags = << >>
    /\ gen = "unused"
    /\ disconnected = FALSE
    /\ discAt = None

\* no prompt is being built
PromptOff ==
    /\ conversation = << >>
    /\ history_text = << >>
    /\ hpc = "off"
    /\ sources = << >>
    /\ sent = << >>
    /\ sources_text = << >>
    /\ spc = "off"

\* GET /search-usage has not been answered yet
NoStats == [month |-> 0, providers |-> << >>]

Init ==
    /\ PipelineOff
    /\ PromptOff
    /\ stats = NoStats
    /\ config \in Registries
    /\ constructed = FALSE
    /\ providers = << >>
    /\ current_index = 0
    /\ now = 1
    /\ file \in StoredFiles(config, now)
    /\ nsaves = 0
    /\ lastSave = NoData
    /\ req = [r \in Req |-> Idle]
    /\ last = NoCall
    /\ ncalls = 0
    /\ selLog = << >>

\* the remaining quota computed from the limit alone
Remaining_limit(p) ==
    IF p.limit # None /\ p.limit # 0 THEN p.limit ELSE "unlimited"

\* line 425: (p.limit - p.used) if p.limit else "unlimited"
Remaining(p) ==
    IF p.limit # None /\ p.limit # 0 THEN p.limit - p.used ELSE "unlimited"

\* lines 415-429: get_usage_stats
get_usage_stats(provs, month) ==
    [month |-> month,
     providers |-> [i \in 1..Len(provs) |->
                      [id |-> provs[i].id, type |-> provs[i].provider_type,
                       used |-> provs[i].used, limit |-> provs[i].limit,
                       remaining |-> Remaining(provs[i])]]]

\* GET /search-usage: get_search_usage gets the manager (constructing it
\* when this is the first use) and answers with get_usage_stats, which
\* only reads
GetSearchUsage ==
    /\ \E f1 \in ManagerFiles : GetManager(f1)
    /\ providers' = ManagerProviders
    /\ stats' = get_usage_stats(ManagerProviders, now)
    /\ UNCHANGED << config, current_index, now, req, last, ncalls, selLog >>
    /\ UNCHANGED << pvars, hvars >>

\* GET /search-usage as the first request the process serves
FirstSearchUsage ==
    /\ ~constructed
    /\ GetSearchUsage

\* the calendar month changes
Tick ==
    /\ now < MaxMonth
    /\ now' = now + 1
    /\ UNCHANGED << config, constructed, providers, current_index, file,
                    nsaves, lastSave, req, last, ncalls, selLog >>
    /\ UNCHANGED << pvars, hvars, stats >>

\* ------------------------------------------------------------ search steps
\* search() of handler r ends: it returns the list of provider src
\* (results), or an exception leaves it (via = "raised")
Returned(r, o, via, src, results) ==
    /\ req' = [req EXCEPT ![r] = Idle]
    /\ last' = [via |-> via, src |-> src, results |-> results,
                mode |-> req[r].mode, provider |-> req[r].provider,
                got |-> o]

\* search() of handler r suspends at its next provider call
Awaiting(r, o, pc, alt) ==
    /\ req' = [req EXCEPT ![r] = [@ EXCEPT !.pc = pc, !.got = o, !.alt = alt]]
    /\ last' = last

\* lines 193-196: _get_next_provider, then the await of the chosen
\* provider's call (StopIteration escapes search when nothing is found);
\* o is the outcome of the preferred attempt, "none" when there was none
Select(r, m, o, provs) ==
    LET g == get_next_provider(provs, current_index) IN
    /\ current_index' = g.cursor
    /\ selLog' = Append(selLog, [cursor |-> current_index, idx |-> g.idx])
    /\ IF g.idx = 0
       THEN /\ req' = [req EXCEPT ![r] = Idle]
            /\ last' = [NoCall EXCEPT !.via = "raised", !.mode = m, !.got = o]
       ELSE /\ req' = [req EXCEPT ![r] =
                         [Idle EXCEPT !.pc = "rr_wait", !.mode = m, !.got = o,
                                      !.provider = g.idx]]
            /\ last' = last

\* handler r is not inside search()
Free(r) == req[r].pc = "idle"

\* a new request arrives and is served by the first free handler: search()
\* up to its first await
SearchEntry(r, m) ==
    /\ Free(r)
    /\ \A q \in Req : Free(q) => r <= q
    /\ ncalls' = ncalls + 1
    /\ \E f1 \in ManagerFiles : GetManager(f1)
    /\ providers' = ManagerProviders
    /\ IF m \in filtered_modes /\ FirstOfType(ManagerProviders, "searxng") # 0
       THEN /\ req' = [req EXCEPT ![r] = [Idle EXCEPT !.pc = "pref_wait",
                                                       !.mode = m]]
            /\ UNCHANGED << current_index, selLog, last >>
       ELSE Select(r, m, "none", ManagerProviders)
    /\ UNCHANGED << config, now >>

StartSearch(r, m) ==
    /\ ncalls < MaxCalls
    /\ SearchEntry(r, m)
    /\ UNCHANGED << pvars, hvars, stats >>

\* the preferred SearXNG attempt (line 186) completes; it is not inside
\* the try block, so its exception leaves search
PrefReturn(r, o) ==
    /\ req[r].pc = "pref_wait"
    /\ IF o = "results"
       THEN /\ Returned(r, o, "pref", FirstOfType(providers, "searxng"), o)
            /\ UNCHANGED << current_index, selLog >>
       ELSE IF o = "empty"
       THEN Select(r, req[r].mode, o, providers)
       ELSE /\ Returned(r, o, "raised", 0, "empty")
            /\ UNCHANGED << current_index, selLog >>
    /\ UNCHANGED << config, constructed, providers, file, now, nsaves,
                    lastSave, ncalls >>
    /\ UNCHANGED << pvars, hvars, stats >>

\* the alternative-provider loop letting the last exception out
Scan_raises(r, from) ==
    LET a == ScanFrom(providers, req[r].provider, from) IN
    IF a = 0
    THEN Returned(r, "raise", "raised", 0, "empty")
    ELSE Awaiting(r, "raise", "fb_alt_wait", a)

\* lines 232-245: continue the alternative-provider loop at position `from`
Scan(r, from) ==
    LET a == ScanFrom(providers, req[r].provider, from) IN
    IF a = 0
    THEN Returned(r, "raise", "none", 0, "empty")
    ELSE Awaiting(r, "raise", "fb_alt_wait", a)

\* the round-robin provider's call completing with the use counted before
\* the call's outcome is known: a failed call is charged as well
RRReturn_charging(r, o) ==
    LET i == req[r].provider IN
    /\ req[r].pc = "rr_wait"
    /\ IF ~TriggersFallback(o)
       THEN Returned(r, o, "rr", i, o)
       ELSE IF UseSearxFallback(providers, i)
            THEN Awaiting(r, o, "fb_searx_wait", 0)
            ELSE Scan(r, 1)
    /\ IF providers[i].limit # None
       THEN /\ providers' = RecordUse(providers, i)
            /\ nsaves' = nsaves + 1
            /\ lastSave' = save_usage(providers', now)
            /\ file' \in Written(file, lastSave')
       ELSE UNCHANGED << providers, nsaves, lastSave, file >>
    /\ UNCHANGED << config, constructed, current_index, now, ncalls, selLog >>
    /\ UNCHANGED << pvars, hvars, stats >>

\* the round-robin provider's call completes (lines 197-230)
RRReturn(r, o) ==
    LET i == req[r].provider IN
    /\ req[r].pc = "rr_wait"
    /\ IF ~TriggersFallback(o)
       THEN /\ Returned(r, o, "rr", i, o)
            /\ IF ShouldRecord(providers[i], o)
               THEN /\ providers' = RecordUse(providers, i)
                    /\ nsaves' = nsaves + 1
                    /\ lastSave' = save_usage(providers', now)
                    /\ file' \in Written(file, lastSave')
               ELSE UNCHANGED << providers, nsaves, lastSave, file >>
       ELSE /\ IF UseSearxFallback(providers, i)
               THEN Awaiting(r, o, "fb_searx_wait", 0)
               ELSE Scan(r, 1)
            /\ UNCHANGED << providers, nsaves, lastSave, file >>
    /\ UNCHANGED << config, constructed, current_index, now, ncalls, selLog >>
    /\ UNCHANGED << pvars, hvars, stats >>

\* the SearXNG fallback call (line 228) completes
FbSearxReturn(r, o) ==
    /\ req[r].pc = "fb_searx_wait"
    /\ IF o # "raise"
       THEN Returned(r, o, "fb_searx", FirstOfType(providers, "searxng"), o)
       ELSE Scan(r, 1)
    /\ UNCHANGED << config, constructed, providers, current_index, file, now,
                    nsaves, lastSave, ncalls, selLog >>
    /\ UNCHANGED << pvars, hvars, stats >>

\* an alternative provider's call completing with its empty list taken as
\* a failure: the scan goes on to the next eligible provider
FbAltReturn_nonempty(r, o) ==
    /\ req[r].pc = "fb_alt_wait"
    /\ IF o = "results"
       THEN Returned(r, o, "fb_alt", req[r].alt, o)
       ELSE LET a == ScanFrom(providers, req[r].provider, req[r].alt + 1) IN
            IF a = 0
            THEN Returned(r, o, "none", 0, "empty")
            ELSE Awaiting(r, o, "fb_alt_wait", a)
    /\ UNCHANGED << config, constructed, providers, current_index, file, now,
                    nsaves, lastSave, ncalls, selLog >>
    /\ UNCHANGED << pvars, hvars, stats >>

\* an alternative provider's call (lines 237-242) completes
FbAltReturn(r, o) ==
    /\ req[r].pc = "fb_alt_wait"
    /\ IF o # "raise"
       THEN Returned(r, o, "fb_alt", req[r].alt, o)
       ELSE Scan(r, req[r].alt + 1)
    /\ UNCHANGED << config, constructed, providers, current_index, file, now,
                    nsaves, lastSave, ncalls, selLog >>
    /\ UNCHANGED << pvars, hvars, stats >>

Next ==
    \/ FirstSearchUsage
    \/ Tick
    \/ \E r \in Req, m \in Modes : StartSearch(r, m)
    \/ \E r \in Req, o \in Outcomes : PrefReturn(r, o)
    \/ \E r \in Req, o \in Outcomes : RRReturn(r, o)
    \/ \E r \in Req, o \in Outcomes : FbSearxReturn(r, o)
    \/ \E r \in Req, o \in Outcomes : FbAltReturn(r, o)

Spec == Init /\ [][Next]_vars

\* requests served in turn: a request arrives only when no search() call
\* is in progress, so a single handler serves them all
StartSearchSeq(m) ==
    /\ ncalls < MaxSeqCalls
    /\ \A q \in Req : Free(q)
    /\ SearchEntry(1, m)
    /\ UNCHANGED << pvars, hvars, stats >>

NextSeq ==
    \/ GetSearchUsage
    \/ Tick
    \/ \E m \in Modes : StartSearchSeq(m)
    \/ \E o \in Outcomes : PrefReturn(1, o)
    \/ \E o \in Outcomes : RRReturn(1, o)
    \/ \E o \in Outcomes : FbSearxReturn(1, o)
    \/ \E o \in Outcomes : FbAltReturn(1, o)

SpecSeq == Init /\ [][NextSeq]_vars

\* ------------------------------------------------- the streaming pipeline
\* (backend/server/quick_search.py): POST /quick-search dispatches the
\* search, then streams sources, start, the answer chunks and done as
\* server-sent events, polling req.is_disconnected() before start and
\* before every chunk.

\* one line of the Ollama response body, as response.aiter_lines() gives it
Line(empty, valid, has, response) ==
    [kind |-> "line", empty |-> empty, valid |-> valid, has |-> has,
     response |-> response]

\* how the response stream ends: exhausted, an exception other than
\* CancelledError, or CancelledError
Ending(kind) ==
    [kind |-> kind, empty |-> TRUE, valid |-> FALSE, has |-> FALSE,
     response |-> ""]

Lines ==
    { Line(TRUE, FALSE, FALSE, ""),       \* a blank line
      Line(FALSE, FALSE, FALSE, ""),      \* not JSON
      Line(FALSE, TRUE, FALSE, ""),       \* JSON without a "response" key
      Line(FALSE, TRUE, TRUE, "A"),
      Line(FALSE, TRUE, TRUE, "B") }

\* f"\n\nError: {str(e)}"
ErrorFragment == "Error"

\* lines 119-125: what one line makes the generator yield
Yields(line) ==
    IF line.empty THEN << >>
    ELSE IF ~line.valid THEN << >>
    ELSE IF ~line.has THEN << >>
    ELSE << line.response >>

\* the except branch swallowing the exception
OnError_silent == << >>

\* lines 129-130: what an exception in the stream makes the generator yield
OnError == << ErrorFragment >>

SourcesEvent(srcs) == [type |-> "sources", content |-> srcs]
StartEvent == [type |-> "start", content |-> ""]
ChunkEvent(f) == [type |-> "chunk", content |-> f]
DoneEvent == [type |-> "done", content |-> ""]

\* a yield of generate_response putting the event ahead of the earlier ones
Emit_front(evs, e) == << e >> \o evs

\* a yield of generate_response: the event follows all earlier ones
Emit(evs, e) == Append(evs, e)

\* the poll never seeing the client leave
is_disconnected_never(d) == FALSE

\* await req.is_disconnected()
is_disconnected(d) == d

\* the search result list passing the test whatever it holds
NoSources_never(results) == FALSE

\* line 146: not sources
NoSources(results) == results # "results"

\* the generator being driven on after the handler has stopped
Answering_any == qpc \in {"answering", "cancelled"}

\* generate_response is inside its async for loop (lines 178-189)
Answering == qpc = "answering"

Terminal == {"no_results", "failed", "cancelled", "done"}

\* POST /quick-search arrives when the earlier request is over (line 144):
\* search_multi_provider up to the first await inside search()
QuickSearch(m) ==
    /\ qpc \in {"init"} \cup Terminal
    /\ ncalls < MaxStreamCalls
    /\ SearchEntry(1, m)
    /\ qpc' = "searching"
    /\ events' = << >>
    /\ stream' = << >>
    /\ frags' = << >>
    /\ gen' = "unused"
    /\ disconnected' = FALSE
    /\ discAt' = None
    /\ UNCHANGED << hvars, stats >>

\* lines 144-167: search() is over; its exception leaves the handler, an
\* empty list becomes HTTP 503, anything else opens the event stream,
\* whose first event is the sources
SearchDone ==
    /\ qpc = "searching"
    /\ Free(1)
    /\ IF last.via = "raised"
       THEN /\ qpc' = "failed"
            /\ events' = events
       ELSE IF NoSources(last.results)
       THEN /\ qpc' = "no_results"
            /\ events' = events
       ELSE /\ qpc' = "sources_ready"
            /\ events' = Emit(events, SourcesEvent(last.results))
    /\ UNCHANGED << stream, frags, gen, disconnected, discAt >>
    /\ UNCHANGED << dvars, hvars, stats >>

\* lines 169-175: the poll before the LLM is started, then the start event
CheckStart ==
    /\ qpc = "sources_ready"
    /\ IF is_disconnected(disconnected)
       THEN /\ qpc' = "cancelled"
            /\ UNCHANGED << events, gen >>
       ELSE /\ qpc' = "answering"
            /\ events' = Emit(events, StartEvent)
            /\ gen' = "running"
    /\ UNCHANGED << stream, frags, disconnected, discAt >>
    /\ UNCHANGED << dvars, hvars, stats >>

\* the chunk of a fragment yielded twice
Deliver_twice(ys) ==
    /\ frags' = frags \o ys
    /\ IF ys = << >>
       THEN UNCHANGED << qpc, events >>
       ELSE IF is_disconnected(disconnected)
       THEN /\ qpc' = "cancelled"
            /\ events' = events
       ELSE /\ qpc' = qpc
            /\ events' = Emit(Emit(events, ChunkEvent(ys[1])),
                              ChunkEvent(ys[1]))

\* lines 185-189: the generator has yielded ys (nothing, or one fragment);
\* a fragment is followed by the poll and, client present, by its chunk
Deliver(ys) ==
    /\ frags' = frags \o ys
    /\ IF ys = << >>
       THEN UNCHANGED << qpc, events >>
       ELSE IF is_disconnected(disconnected)
       THEN /\ qpc' = "cancelled"
            /\ events' = events
       ELSE /\ qpc' = qpc
            /\ events' = Emit(events, ChunkEvent(ys[1]))

\* lines 118-125: the response stream delivers one more line
ReadLine(l) ==
    /\ Answering
    /\ gen = "running"
    /\ Len(stream) < MaxLines
    /\ stream' = Append(stream, l)
    /\ Deliver(Yields(l))
    /\ UNCHANGED << gen, disconnected, discAt >>
    /\ UNCHANGED << dvars, hvars, stats >>

\* lines 129-130: an exception other than CancelledError in the stream
StreamFails ==
    /\ Answering
    /\ gen = "running"
    /\ stream' = Append(stream, Ending("error"))
    /\ Deliver(OnError)
    /\ gen' = "failed"
    /\ UNCHANGED << disconnected, discAt >>
    /\ UNCHANGED << dvars, hvars, stats >>

\* line 194: the generator is exhausted (the stream ended, or the generator
\* resumed after its error fragment); done follows without a poll
StreamEnds ==
    /\ Answering
    /\ gen \in {"running", "failed"}
    /\ stream' = IF gen = "running" THEN Append(stream, Ending("eof"))
                 ELSE stream
    /\ gen' = "ended"
    /\ events' = Emit(events, DoneEvent)
    /\ qpc' = "done"
    /\ UNCHANGED << frags, disconnected, discAt >>
    /\ UNCHANGED << dvars, hvars, stats >>

\* CancelledError caught like any other exception of the stream
Interrupted_absorbed ==
    /\ Answering
    /\ gen = "running"
    /\ stream' = Append(stream, Ending("cancelled"))
    /\ Deliver(OnError)
    /\ gen' = "failed"
    /\ UNCHANGED << disconnected, discAt >>
    /\ UNCHANGED << dvars, hvars, stats >>

\* lines 126-128 and 190-192: CancelledError in the stream is re-raised by
\* the generator and ends generate_response
Interrupted ==
    /\ Answering
    /\ gen = "running"
    /\ stream' = Append(stream, Ending("cancelled"))
    /\ gen' = "ended"
    /\ qpc' = "cancelled"
    /\ UNCHANGED << events, frags, disconnected, discAt >>
    /\ UNCHANGED << dvars, hvars, stats >>

\* the client goes away while its request is being served
Disconnect ==
    /\ qpc \notin {"init"} \cup Terminal
    /\ ~disconnected
    /\ disconnected' = TRUE
    /\ discAt' = Len(events)
    /\ UNCHANGED << qpc, events, stream, frags, gen >>
    /\ UNCHANGED << dvars, hvars, stats >>

\* a first start of the server: no usage file yet
InitStream ==
    /\ Init
    /\ file = NoData

NextStream ==
    \/ \E m \in Modes : QuickSearch(m)
    \/ \E o \in Outcomes : PrefReturn(1, o)
    \/ \E o \in Outcomes : RRReturn(1, o)
    \/ \E o \in Outcomes : FbSearxReturn(1, o)
    \/ \E o \in Outcomes : FbAltReturn(1, o)
    \/ SearchDone
    \/ CheckStart
    \/ \E l \in Lines : ReadLine(l)
    \/ StreamFails
    \/ StreamEnds
    \/ Interrupted
    \/ Disconnect

SpecStream == InitStream /\ [][NextStream]_vars

\* the event loop resumes generate_response after every await, and the
\* Ollama response body is finite: the stream ends after some line
FairStream ==
    /\ WF_vars(CheckStart)
    /\ WF_vars(StreamEnds)

\* the registry of SEARX_URL and one Tavily key: [p1 unlimited, p2 limited]
TwoProviders ==
    init_providers([searx |-> TRUE, tavily |-> 1, brave |-> 0, serper |-> 0])

InitStreamFair ==
    /\ InitStream
    /\ config = TwoProviders

SpecStreamFair == InitStreamFair /\ [][NextStream]_vars /\ FairStream

\* ------------------------------------------------- the conversation history
\* stream_ollama_response, lines 86-93: the history part of the prompt,
\* one line "<Role>: <content>" per message kept.  A content string is
\* known by the message it came from (tag) and its length.
MaxHistory == 7     \* messages in request.conversation_history

HistoryWindow == 6
ContentLimit == 500

Content(tag, len) == [tag |-> tag, len |-> len]

\* role and content length of the messages a client sends
MessageKinds ==
    { [role |-> "user", len |-> ContentLimit + 1],
      [role |-> "assistant", len |-> ContentLimit],
      [role |-> "system", len |-> ContentLimit + 100],
      [role |-> "user", len |-> 0] }

\* the histories of m messages; message i carries content i
Conversations(m) ==
    { [i \in 1..m |-> [role |-> k[i].role, content |-> Content(i, k[i].len)]] :
        k \in [1..m -> MessageKinds] }

\* the slice keeping the first messages
LastMessages_first(h) ==
    IF Len(h) <= HistoryWindow THEN h ELSE SubSeq(h, 1, HistoryWindow)

\* conversation_history[-6:]
LastMessages(h) ==
    IF Len(h) <= HistoryWindow THEN h
    ELSE SubSeq(h, Len(h) - HistoryWindow + 1, Len(h))

\* the content put in the prompt whole
Clip_none(c) == c

\* msg.get('content', '')[:500]
Clip(c) == IF c.len <= ContentLimit THEN c ELSE Content(c.tag, ContentLimit)

\* "User" if msg.get('role') == 'user' else "Assistant"
RoleLabel(role) == IF role = "user" THEN "User" ELSE "Assistant"

\* lines 87-93: the lines between the header and the closing blank line
HistoryText(h) ==
    IF h = << >> THEN << >>
    ELSE [i \in 1..Len(LastMessages(h)) |->
            [label |-> RoleLabel(LastMessages(h)[i].role),
             content |-> Clip(LastMessages(h)[i].content)]]

InitPrompt ==
    /\ PipelineOff
    /\ stats = NoStats
    /\ config = << >>
    /\ constructed = FALSE
    /\ providers = << >>
    /\ current_index = 0
    /\ now = 1
    /\ file = NoData
    /\ nsaves = 0
    /\ lastSave = NoData
    /\ req = [r \in Req |-> Idle]
    /\ last = NoCall
    /\ ncalls = 0
    /\ selLog = << >>
    /\ \E m \in 0..MaxHistory : conversation \in Conversations(m)
    /\ history_text = << >>
    /\ hpc = "request"
    /\ sources = << >>
    /\ sent = << >>
    /\ sources_text = << >>
    /\ spc = "off"

\* stream_ollama_response builds history_text from the request's history
BuildHistory ==
    /\ hpc = "request"
    /\ history_text' = HistoryText(conversation)
    /\ hpc' = "prompted"
    /\ UNCHANGED << conversation, sources, sent, sources_text, spc >>
    /\ UNCHANGED << dvars, pvars, stats >>

NextPrompt == BuildHistory

SpecPrompt == InitPrompt /\ [][NextPrompt]_vars

\* ------------------------------------------------------ process restarts
MaxRunCalls == 2    \* search calls started over one run with restarts
MaxSaves == 3       \* _save_usage calls after which the process stays up

\* a snapshot written while the first quota-bearing key of provs was not
\* configured yet: its usage mapping has no entry for that provider
EarlierSnapshot(provs, m) ==
    LET first == CHOOSE i \in Limited(provs) : \A j \in Limited(provs) : i <= j
        full == Snapshot(provs, m, [i \in 1..Len(provs) |-> "near"])
    IN  [full EXCEPT !.usage =
            [id \in LimitedIds(provs) \ {provs[first].id} |-> full.usage[id]]]

\* contents search_usage.json may have when a process starts
RestartFiles(provs, cur) ==
    StoredFiles(provs, cur)
    \cup (IF Limited(provs) = {} THEN {} ELSE {EarlierSnapshot(provs, cur)})

InitRestart ==
    /\ PipelineOff
    /\ PromptOff
    /\ stats = NoStats
    /\ config \in Registries
    /\ constructed = FALSE
    /\ providers = << >>
    /\ current_index = 0
    /\ now = 1
    /\ file \in RestartFiles(config, now)
    /\ nsaves = 0
    /\ lastSave = NoData
    /\ req = [r \in Req |-> Idle]
    /\ last = NoCall
    /\ ncalls = 0
    /\ selLog = << >>

\* the process ends between two requests and a new one starts: the module
\* global _manager is None again and the environment and the store are as
\* they were; providers keeps the counters the ended process held (nothing
\* reads them before the next construction replaces them)
Exit ==
    /\ constructed
    /\ \A q \in Req : Free(q)
    /\ nsaves < MaxSaves
    /\ constructed' = FALSE
    /\ current_index' = 0
    /\ UNCHANGED << config, providers, file, now, nsaves, lastSave, req, last,
                    ncalls, selLog >>
    /\ UNCHANGED << pvars, hvars, stats >>

StartSearchRun(m) ==
    /\ ncalls < MaxRunCalls
    /\ \A q \in Req : Free(q)
    /\ SearchEntry(1, m)
    /\ UNCHANGED << pvars, hvars, stats >>

NextRestart ==
    \/ Exit
    \/ FirstSearchUsage
    \/ Tick
    \/ \E m \in Modes : StartSearchRun(m)
    \/ \E o \in Outcomes : PrefReturn(1, o)
    \/ \E o \in Outcomes : RRReturn(1, o)
    \/ \E o \in Outcomes : FbSearxReturn(1, o)
    \/ \E o \in Outcomes : FbAltReturn(1, o)

SpecRestart == InitRestart /\ [][NextRestart]_vars

\* ------------------------------------------------- the sources of a request
MaxSources == 3     \* results one search call returns

\* titles and snippets of the results (two results may carry the same)
Titles == {"T1", "T2"}
Snippets == {"S1", "S2"}
Urls == {"U1"}

\* the dict every _search_* method builds per result
SourceDict(t, u, c) == [title |-> t, url |-> u, snippet |-> c]

\* the lists of m results a search call may return
SourceLists(m) ==
    [1..m -> { SourceDict(t, u, c) : t \in Titles, u \in Urls, c \in Snippets }]

\* json.dumps of one result: its key/value pairs in insertion order
JsonObject(d) ==
    << <<"title", d.title>>, <<"url", d.url>>, <<"snippet", d.snippet>> >>

\* json.dumps of the list: the encoded elements in list order
JsonArray(l) == [i \in 1..Len(l) |-> JsonObject(l[i])]

\* lines 161-167: the sources event as it is yielded
sources_data(srcs) == [type |-> "sources", sources |-> JsonArray(srcs)]

\* the citation line numbered with the index enumerate gives
CitationLine_zero(i, d) ==
    [number |-> i, title |-> d.title, snippet |-> d.snippet]

\* f"[{i+1}] {s['title']}: {s['snippet']}", i the index enumerate gives
CitationLine(i, d) ==
    [number |-> i + 1, title |-> d.title, snippet |-> d.snippet]

\* lines 81-84: one citation line per source, enumerate counting from 0
SourcesText(srcs) == [k \in 1..Len(srcs) |-> CitationLine(k - 1, srcs[k])]

\* search_multi_provider has returned its list to quick_search (line 144)
InitSources ==
    /\ PipelineOff
    /\ stats = NoStats
    /\ config = << >>
    /\ constructed = FALSE
    /\ providers = << >>
    /\ current_index = 0
    /\ now = 1
    /\ file = NoData
    /\ nsaves = 0
    /\ lastSave = NoData
    /\ req = [r \in Req |-> Idle]
    /\ last = NoCall
    /\ ncalls = 0
    /\ selLog = << >>
    /\ conversation = << >>
    /\ history_text = << >>
    /\ hpc = "off"
    /\ \E m \in 0..MaxSources : sources \in SourceLists(m)
    /\ sent = << >>
    /\ sources_text = << >>
    /\ spc = "searched"

\* lines 146-147: no sources, the request is answered 503
RefuseEmpty ==
    /\ spc = "searched"
    /\ sources = << >>
    /\ spc' = "refused"
    /\ UNCHANGED << conversation, history_text, hpc, sources, sent,
                    sources_text >>
    /\ UNCHANGED << dvars, pvars, stats >>

\* lines 161-167: generate_response yields the sources event
SendSources ==
    /\ spc = "searched"
    /\ sources # << >>
    /\ sent' = sources_data(sources)
    /\ spc' = "sent"
    /\ UNCHANGED << conversation, history_text, hpc, sources, sources_text >>
    /\ UNCHANGED << dvars, pvars, stats >>

\* lines 170-172: the client is gone, no prompt is built
LeaveBeforePrompt ==
    /\ spc = "sent"
    /\ spc' = "left"
    /\ UNCHANGED << conversation, history_text, hpc, sources, sent,
                    sources_text >>
    /\ UNCHANGED << dvars, pvars, stats >>

\* lines 178-184, 81-84: stream_ollama_response builds the citation lines
\* from the list it is passed
BuildSourcesText ==
    /\ spc = "sent"
    /\ sources_text' = SourcesText(sources)
    /\ spc' = "prompted"
    /\ UNCHANGED << conversation, history_text, hpc, sources, sent >>
    /\ UNCHANGED << dvars, pvars, stats >>

NextSources ==
    \/ RefuseEmpty
    \/ SendSources
    \/ LeaveBeforePrompt
    \/ BuildSourcesText

SpecSources == InitSources /\ [][NextSources]_vars

\* ================================================================ claims
NProv == Len(providers)

AllUnlimited == constructed /\ NProv > 0 /\ Limited(providers) = {}

\* the focus modes that prefer the filter-capable backend
FilteredFocus == {"reddit", "news", "shopping"}

\* the filter-capable provider, 0 when none is configured
Searx == FirstOfType(providers, "searxng")

\* the step is handler r entering search()
Starts(r) ==
    /\ ncalls' = ncalls + 1
    /\ Free(r)
    /\ \A q \in Req : Free(q) => r <= q

\* the step is an awaited provider call of handler r completing
Steps(r) == req[r].pc # "idle" /\ req'[r] # req[r]

\* the step ends a search() call of handler r (last' describes its outcome)
Ends(r) == Steps(r) /\ req'[r].pc = "idle"

\* focus mode of the call that handler r starts in this step
StartedMode(r) == IF req'[r].pc = "idle" THEN last'.mode ELSE req'[r].mode

\* outcome of the awaited call that completes in this step of handler r
Got(r) == IF req'[r].pc = "idle" THEN last'.got ELSE req'[r].got

\* the step appends one _get_next_provider call to the log
Selects == Len(selLog') = Len(selLog) + 1

LastSel == selLog'[Len(selLog')]

\* ---- C1
FairOrder ==
    AllUnlimited =>
        \A j \in 1..Len(selLog) :
            /\ selLog[j].cursor = j - 1
            /\ selLog[j].idx = ((j - 1) % NProv) + 1

FairCount ==
    AllUnlimited =>
        \A s \in 0..Len(selLog), k \in 0..Len(selLog) :
            s + k * NProv <= Len(selLog) =>
                \A p \in 1..NProv :
                    Cardinality({ j \in (s + 1)..(s + k * NProv) :
                                     selLog[j].idx = p }) = k

QuickSelectsOnce ==
    \A r \in Req :
        /\ (Starts(r) /\ StartedMode(r) \notin FilteredFocus) => Selects
        /\ (req[r].pc \in {"rr_wait", "fb_searx_wait", "fb_alt_wait"}
              /\ Steps(r)) => selLog' = selLog

\* C1: with a registry of unlimited providers only, every search call in a
\* non-filtered focus mode makes exactly one round-robin selection, the
\* j-th selection is the provider at index (j-1) mod n, and so any k*n
\* consecutive selections pick each provider exactly k times, in registry
\* order, repeating.
C1_Fairness ==
    /\ [](FairOrder /\ FairCount)
    /\ [][QuickSelectsOnce]_vars

\* four consecutive calls over a registry of two unlimited providers, one
\* selection each: the round-robin has gone round twice
C1_Witness ==
    /\ AllUnlimited
    /\ NProv = 2
    /\ Len(selLog) = 4
    /\ ncalls = 4

\* ---- C2
\* C2: _get_next_provider never returns a provider that carries a limit and
\* has used >= limit; whatever it returns is unlimited or under its quota.
C2_QuotaSkip ==
    [][ (Selects /\ LastSel.idx # 0) =>
            LET p == providers'[LastSel.idx] IN
            p.limit = None \/ p.used < p.limit ]_vars

\* some selection found the provider under the cursor at or over its limit
\* and returned a different one
C2_Witness ==
    /\ constructed
    /\ NProv > 0
    /\ \E j \in 1..Len(selLog) :
          LET c == (selLog[j].cursor % NProv) + 1 IN
          /\ providers[c].limit # None
          /\ providers[c].used >= providers[c].limit
          /\ selLog[j].idx \notin {0, c}

\* ---- C3
\* C3: every provider that carries a limit has used <= limit, whatever the
\* interleaving of overlapping search requests.
C3_QuotaCeiling ==
    constructed =>
        \A i \in Limited(providers) : providers[i].used <= providers[i].limit

\* ---- C4
\* C4: whenever search returns a non-empty list obtained from a provider
\* with a limit, by round-robin or through the fallback chain, that
\* provider's used counter has grown by exactly 1 and the ledger was saved.
C4_EveryUseRecorded ==
    [][ \A r \in Req :
          (/\ Ends(r)
           /\ last'.via # "raised"
           /\ last'.results = "results"
           /\ last'.src # 0
           /\ providers[last'.src].limit # None)
          => /\ providers'[last'.src].used = providers[last'.src].used + 1
             /\ nsaves' = nsaves + 1 ]_vars

\* ---- C5
\* the step is the round-robin provider's call of handler r returning a list
RRDone(r) == req[r].pc = "rr_wait" /\ Ends(r) /\ last'.via = "rr"

\* data is the snapshot of the counters provs in month m
SnapshotOf(data, provs, m) ==
    /\ data.status = "ok"
    /\ data.month = m
    /\ DOMAIN data.usage = LimitedIds(provs)
    /\ \A i \in Limited(provs) : data.usage[provs[i].id] = provs[i].used

\* C5: when the round-robin provider returns a non-empty list and carries a
\* limit, its counter grows by exactly 1, no other counter changes, and one
\* save is made whose snapshot holds the counters of all limited providers
\* (the store then holds that snapshot unless the write failed); otherwise
\* no counter changes and no save is made.
C5_RoundRobinRecording ==
    [][ \A r \in Req : RRDone(r) =>
          LET i == req[r].provider IN
          IF providers[i].limit # None /\ last'.results = "results"
          THEN /\ providers' = [providers EXCEPT ![i].used = @ + 1]
               /\ nsaves' = nsaves + 1
               /\ SnapshotOf(lastSave', providers', now)
               /\ file' \in {lastSave', file, BadData}
          ELSE /\ providers' = providers
               /\ nsaves' = nsaves
               /\ lastSave' = lastSave
               /\ file' = file ]_vars

\* a round-robin call on a limited provider returned results and the
\* snapshot of the counters is in the store
C5_Witness ==
    /\ last.via = "rr"
    /\ last.results = "results"
    /\ providers[last.src].limit # None
    /\ providers[last.src].used > 0
    /\ file = lastSave
    /\ SnapshotOf(file, providers, now)

\* ---- C6
\* C6: constructing the manager over a stored ledger of another month
\* leaves every used counter at zero and saves at once a snapshot of the
\* current month with zero usage.
C6_RolloverAtLoad ==
    [][ (~constructed /\ constructed' /\ file.status = "ok"
            /\ file.month # now) =>
          /\ \A i \in 1..Len(providers') : providers'[i].used = 0
          /\ nsaves' = nsaves + 1
          /\ SnapshotOf(lastSave', providers', now)
          /\ \A id \in DOMAIN lastSave'.usage : lastSave'.usage[id] = 0
          /\ file' \in {lastSave', file, BadData} ]_vars

\* the manager was constructed over a ledger of a limited provider, saved
\* the reset, and the store holds the zero snapshot of the current month
C6_Witness ==
    /\ constructed
    /\ ncalls = 0
    /\ nsaves = 1
    /\ Limited(providers) # {}
    /\ file = lastSave
    /\ file.month = now
    /\ \A i \in 1..NProv : providers[i].used = 0

\* ---- C7
\* C7: a recorded use that follows a change of month first resets all used
\* counters: when the last snapshot this process built carries an earlier
\* month than the current one, the recording leaves the recorded provider
\* at 1 and every other provider at 0, so no snapshot labels counts of an
\* earlier month with the new month.
C7_RolloverBeforeRecord ==
    [][ \A r \in Req :
          (/\ RRDone(r)
           /\ nsaves' = nsaves + 1
           /\ lastSave.status = "ok"
           /\ lastSave.month < now)
          => \A j \in 1..NProv :
                providers'[j].used = IF j = req[r].provider THEN 1 ELSE 0 ]_vars

\* ---- C8
\* C8: in a filtered focus mode with a SearXNG provider configured, search
\* first awaits that provider without advancing the cursor; when that call
\* returns a non-empty list search returns it, with the cursor and every
\* used counter unchanged; in any other mode no such attempt is made.
C8_FocusPreference ==
    [][ \A r \in Req :
          /\ (Starts(r) /\ StartedMode(r) \in FilteredFocus
                /\ FirstOfType(providers', "searxng") # 0)
             => /\ req'[r].pc = "pref_wait"
                /\ current_index' = current_index
                /\ selLog' = selLog
                /\ constructed => providers' = providers
          /\ (req[r].pc = "pref_wait" /\ Steps(r) /\ Got(r) = "results")
             => /\ Ends(r)
                /\ last'.via = "pref"
                /\ last'.src = Searx
                /\ last'.results = "results"
                /\ current_index' = current_index
                /\ selLog' = selLog
                /\ providers' = providers
                /\ nsaves' = nsaves
          /\ (Starts(r) /\ StartedMode(r) \notin FilteredFocus)
             => req'[r].pc # "pref_wait" ]_vars

\* a filtered-mode search returned the list of the preferred SearXNG
\* attempt, after the cursor had moved for an earlier call
C8_Witness ==
    /\ last.via = "pref"
    /\ last.results = "results"
    /\ last.mode \in FilteredFocus
    /\ last.src = Searx
    /\ current_index > 0

\* ---- C9
\* C9: in a filtered focus mode, when the preferred SearXNG attempt returns
\* an empty list or raises, search goes on to the round-robin attempt:
\* _get_next_provider is called and the provider it returns is queried.
C9_FocusFallThrough ==
    [][ \A r \in Req :
          (req[r].pc = "pref_wait" /\ Steps(r)
             /\ Got(r) \in {"empty", "raise"})
          => /\ Selects
             /\ req'[r].pc = "rr_wait"
             /\ req'[r].provider = LastSel.idx ]_vars

\* ---- C10
\* C10: when the round-robin provider's call raises and a SearXNG provider
\* exists that is not the provider that failed, the query is retried
\* against SearXNG, and when that retry does not raise its result is what
\* search returns.
C10_FallbackStepOne ==
    [][ \A r \in Req :
          /\ (req[r].pc = "rr_wait" /\ Steps(r) /\ Got(r) = "raise"
                /\ Searx # 0 /\ req[r].provider # Searx)
             => req'[r].pc = "fb_searx_wait"
          /\ (req[r].pc = "fb_searx_wait" /\ Steps(r) /\ Got(r) # "raise")
             => /\ Ends(r)
                /\ last'.via = "fb_searx"
                /\ last'.src = Searx
                /\ last'.results = Got(r) ]_vars

\* a search whose round-robin provider raised returned the list of the
\* SearXNG retry
C10_Witness ==
    /\ last.via = "fb_searx"
    /\ last.provider # last.src
    /\ last.got = "results"
    /\ last.results = "results"

\* ---- C11
\* provider j may serve as an alternative to the failed provider: it is
\* another provider, not of an excluded kind, and not over quota
Eligible(j, failed) ==
    /\ providers[j].id # providers[failed].id
    /\ providers[j].provider_type \notin {"searxng", "ddg"}
    /\ (providers[j].limit = None \/ providers[j].used < providers[j].limit)

\* the step runs the alternative-provider scan of handler r
ScanStep(r) ==
    /\ Steps(r)
    /\ Got(r) = "raise"
    /\ \/ req'[r].pc = "fb_alt_wait"
       \/ Ends(r) /\ last'.via = "none"

\* the positions the scan of this step runs over: From .. To - 1 are left
\* without a call, To is called (To = NProv + 1: the scan ends)
ScanStart(r) == IF req[r].pc = "fb_alt_wait" THEN req[r].alt + 1 ELSE 1
ScanStop(r) == IF req'[r].pc = "fb_alt_wait" THEN req'[r].alt ELSE NProv + 1

\* C11: the scan of remaining providers calls, in registry order, every
\* provider that is not the failed one, not of an excluded kind and not
\* over quota; no such provider is passed over without being called.
C11_FallbackScan ==
    [][ \A r \in Req : ScanStep(r) =>
          /\ \A j \in ScanStart(r)..(ScanStop(r) - 1) :
                ~Eligible(j, req[r].provider)
          /\ ScanStop(r) <= NProv => Eligible(ScanStop(r), req[r].provider)
      ]_vars

\* ---- C12
\* C12: when the round-robin provider's call raised and the fallback chain
\* has nothing left (every avenue raised or none is eligible), search
\* returns an empty list and no exception leaves it.
C12_FallbackExhaustion ==
    [][ \A r \in Req :
          (/\ req[r].pc \in {"rr_wait", "fb_searx_wait", "fb_alt_wait"}
           /\ Ends(r)
           /\ Got(r) = "raise")
          => /\ last'.via = "none"
             /\ last'.results = "empty"
             /\ last'.src = 0 ]_vars

\* a search ended with the empty list after its round-robin provider raised
C12_Witness ==
    /\ last.via = "none"
    /\ last.got = "raise"
    /\ last.provider # 0
    /\ last.results = "empty"

\* ---- C13
\* C13: whatever the focus mode and whichever provider calls raise, no
\* provider exception leaves search.
C13_ErrorAbsorption ==
    ~(last.via = "raised" /\ last.got = "raise")

\* ---- C14
\* C14: an empty list from the round-robin provider ends search with that
\* empty list, no other provider being called; the fallback chain is
\* entered only when the round-robin provider's call raised.
C14_EmptyIsNotFailure ==
    [][ \A r \in Req :
          /\ (req[r].pc = "rr_wait" /\ Steps(r) /\ Got(r) = "empty")
             => /\ Ends(r)
                /\ last'.via = "rr"
                /\ last'.src = req[r].provider
                /\ last'.results = "empty"
          /\ (req[r].pc = "rr_wait" /\ Steps(r)
                /\ (req'[r].pc \in {"fb_searx_wait", "fb_alt_wait"}
                      \/ (Ends(r) /\ last'.via = "none")))
             => Got(r) = "raise" ]_vars

\* a search returned the empty list of its round-robin provider while
\* another provider was configured
C14_Witness ==
    /\ last.via = "rr"
    /\ last.got = "empty"
    /\ last.results = "empty"
    /\ NProv > 1

\* ---- C15
\* no provider of provs is usable: each carries a limit and is at or over it
Exhausted(provs) ==
    \A i \in 1..Len(provs) :
        provs[i].limit # None /\ provs[i].used >= provs[i].limit

\* C15: when every provider is at or over its limit and none is unlimited
\* (an empty registry included), _get_next_provider finds no provider
\* after its full pass: the call ends there with the exception, the
\* counters stay as they are and the handler is free for later calls; in
\* no other case does _get_next_provider come back without a provider.
C15_SelectExhaustion ==
    [][ \A r \in Req :
          (Selects /\ (Starts(r) \/ Steps(r))) =>
             /\ Exhausted(providers') <=> LastSel.idx = 0
             /\ LastSel.idx = 0 =>
                   /\ current_index' = current_index + Len(providers')
                   /\ Free(r)'
                   /\ last'.via = "raised"
                   /\ constructed => providers' = providers ]_vars

\* a second search call found the registry's providers all exhausted, as
\* the first one had
C15_Witness ==
    /\ last.via = "raised"
    /\ last.got = "none"
    /\ NProv > 0
    /\ Exhausted(providers)
    /\ Len(selLog) = 2
    /\ selLog[1].idx = 0
    /\ selLog[2].idx = 0
    /\ \A r \in Req : Free(r)

\* ---- C16
Types == [i \in 1..Len(events) |-> events[i].type]

\* the fragments carried by the chunk events, in event order
RECURSIVE ChunksOf(_)
ChunksOf(evs) ==
    IF evs = << >> THEN << >>
    ELSE (IF evs[1].type = "chunk" THEN << evs[1].content >> ELSE << >>)
         \o ChunksOf(Tail(evs))

IsPrefix(a, b) == Len(a) <= Len(b) /\ a = SubSeq(b, 1, Len(a))

HasDone == events # << >> /\ events[Len(events)].type = "done"

\* the event stream has been opened
Streaming == qpc \in {"sources_ready", "answering", "cancelled", "done"}

\* C16: the events of one response always form a prefix of sources,
\* start, chunk*, done (sources exactly once and first, start only second,
\* done only last), and the chunk events carry the fragments the generator
\* has yielded, in its order, none skipped or repeated: every fragment but
\* possibly the newest one dropped by a cancellation.
C16_EventOrdering ==
    /\ Streaming <=> events # << >>
    /\ \A i \in 1..Len(events) :
          /\ (i = 1) <=> (Types[i] = "sources")
          /\ (Types[i] = "start") => (i = 2)
          /\ (i = 2) => (Types[i] = "start")
          /\ (i > 2) => (Types[i] = "chunk" \/
                         (Types[i] = "done" /\ i = Len(events)))
    /\ IsPrefix(ChunksOf(events), frags)
    /\ Len(frags) - Len(ChunksOf(events)) <= 1
    /\ (qpc # "cancelled") => ChunksOf(events) = frags

C16_Witness ==
    /\ qpc = "done"
    /\ Len(events) = 5
    /\ frags = << "A", "B" >>
    /\ Len(stream) = 4

\* ---- C17
\* the client went away after the start event, j chunks having been sent
DiscAfter(j) == discAt = 2 + j

\* C17: when the disconnect signal becomes true after j chunks have been
\* sent and the generator yields a further fragment (j < number of
\* fragments), the events are exactly sources, start and the chunks of the
\* first j fragments, with no done event, and the response is cancelled.
C17_Cancellation ==
    \A j \in 0..MaxLines :
        (DiscAfter(j) /\ j < Len(frags)) =>
            /\ qpc = "cancelled"
            /\ Len(frags) = j + 1
            /\ events = << SourcesEvent(last.results), StartEvent >>
                        \o [i \in 1..j |-> ChunkEvent(frags[i])]
            /\ ~HasDone

C17_Witness ==
    /\ DiscAfter(2)
    /\ frags = << "A", "B", "A" >>
    /\ qpc = "cancelled"
    /\ Len(events) = 4

\* ---- C18
\* C18: the step in which a poll (or CancelledError) ends the response
\* yields no event, and once the response is cancelled no step yields an
\* event, reads the Ollama stream or takes a fragment from the generator,
\* until a new request starts.
C18_NothingAfterCancel ==
    [][ /\ (qpc # "cancelled" /\ qpc' = "cancelled") => events' = events
        /\ (qpc = "cancelled" /\ qpc' # "searching") =>
               /\ qpc' = "cancelled"
               /\ UNCHANGED << events, stream, frags, gen >> ]_vars

\* a poll inside the answer loop has seen the disconnect: a fragment was
\* taken from the generator and dropped
C18_Witness ==
    /\ qpc = "cancelled"
    /\ disconnected
    /\ gen = "running"
    /\ Len(frags) = Len(ChunksOf(events)) + 1
    /\ Len(stream) < MaxLines

\* ---- C19
\* search() of the current request has returned the empty list
DispatchEmpty ==
    /\ qpc \notin {"init", "searching"}
    /\ last.via # "raised"
    /\ last.results = "empty"

\* C19: when the dispatch of a request returns the empty list, the request
\* ends with the "no results" failure (HTTP 503), no event of any type has
\* been yielded, and stream_ollama_response has not been started.
C19_NoResults ==
    DispatchEmpty =>
        /\ qpc = "no_results"
        /\ events = << >>
        /\ gen = "unused"
        /\ stream = << >>
        /\ frags = << >>

\* the empty list of an exhausted fallback chain
C19_Witness ==
    /\ qpc = "no_results"
    /\ last.via = "none"
    /\ last.got = "raise"

\* ---- C20
\* the fragments the lines read so far make the generator yield
RECURSIVE Responses(_)
Responses(items) ==
    IF items = << >> THEN << >>
    ELSE (IF items[1].kind = "line" THEN Yields(items[1]) ELSE << >>)
         \o Responses(Tail(items))

\* the Ollama stream broke with an exception other than CancelledError
StreamBroke == stream # << >> /\ stream[Len(stream)].kind = "error"

Chunks(fs) == [i \in 1..Len(fs) |-> ChunkEvent(fs[i])]

\* C20: when the Ollama stream breaks with a non-cancellation error and
\* the client has not disconnected, the events are sources, start, the
\* chunks of the fragments read before the error, exactly one chunk with
\* the error fragment and, once the generator has finished, done.
C20_GenerationFailure ==
    (StreamBroke /\ ~disconnected) =>
        LET body == << SourcesEvent(last.results), StartEvent >>
                    \o Chunks(Responses(stream))
                    \o << ChunkEvent(ErrorFragment) >>
        IN \/ qpc = "answering" /\ gen = "failed" /\ events = body
           \/ qpc = "done" /\ events = Append(body, DoneEvent)

C20_Witness ==
    /\ StreamBroke
    /\ ~disconnected
    /\ qpc = "done"
    /\ Responses(stream) = << "B", "A" >>
    /\ Len(stream) = 4

\* ---- C21
\* the Ollama call was interrupted by CancelledError
StreamCancelled == stream # << >> /\ stream[Len(stream)].kind = "cancelled"

\* C21: when CancelledError interrupts the Ollama call mid-generation, the
\* response ends cancelled: its events are sources, start and the chunks
\* of the fragments read before, with no error chunk and no done event,
\* and the generator is over.
C21_UpstreamCancellation ==
    StreamCancelled =>
        /\ qpc = "cancelled"
        /\ gen = "ended"
        /\ ~HasDone
        /\ \A i \in 1..Len(events) : events[i] # ChunkEvent(ErrorFragment)
        /\ events = << SourcesEvent(last.results), StartEvent >>
                    \o Chunks(Responses(stream))

C21_Witness ==
    /\ StreamCancelled
    /\ ~disconnected
    /\ frags = << "A", "B" >>
    /\ Len(events) = 4

\* ---- C22
\* how many messages of a history of m the prompt holds
Kept(m) == IF m < HistoryWindow THEN m ELSE HistoryWindow

\* C22: for a history of m messages the prompt holds exactly the last
\* min(m, 6) of them, in their order: line k is message m - min(m, 6) + k,
\* labelled User for role user and Assistant otherwise, its content the
\* first 500 characters of the message's content (all of it when shorter).
C22_HistoryTruncation ==
    hpc = "prompted" =>
        LET m == Len(conversation)
            n == Kept(m)
        IN  /\ Len(history_text) = n
            /\ \A k \in 1..n :
                  LET msg == conversation[m - n + k]
                      ln == history_text[k]
                  IN  /\ ln.content.tag = msg.content.tag
                      /\ ln.content.len =
                            (IF msg.content.len < ContentLimit
                             THEN msg.content.len ELSE ContentLimit)
                      /\ ln.label = (IF msg.role = "user" THEN "User"
                                     ELSE "Assistant")

\* seven messages, the first of them dropped, a long one among those kept
C22_Witness ==
    /\ hpc = "prompted"
    /\ Len(conversation) = HistoryWindow + 1
    /\ Len(history_text) = HistoryWindow
    /\ history_text[1].content.tag = 2
    /\ conversation[2].content.len > ContentLimit

\* ---- C23
\* st reports the providers provs, one entry each, in registry order
Reports(st, provs) ==
    /\ Len(st.providers) = Len(provs)
    /\ \A i \in 1..Len(provs) :
          LET e == st.providers[i]
              p == provs[i]
          IN  /\ e.id = p.id
              /\ e.type = p.provider_type
              /\ e.used = p.used
              /\ e.limit = p.limit
              /\ IF p.limit = None
                 THEN e.remaining = "unlimited"
                 ELSE e.remaining = p.limit - p.used

\* a step that answers GET /search-usage with something new
StatsAnswered == stats' # stats

\* C23: the usage-stats answer has one entry per configured provider, in
\* registry order, with its id, type, used and limit, remaining being
\* limit - used for a provider with a limit and "unlimited" for one
\* without; answering changes neither counters, cursor, store nor any
\* request (on a manager that exists already, nothing at all).
C23_UsageStats ==
    [][ StatsAnswered =>
          /\ Reports(stats', providers')
          /\ Len(providers') = Len(config)
          /\ UNCHANGED << config, current_index, now, req, last, ncalls,
                          selLog >>
          /\ constructed =>
                UNCHANGED << providers, file, nsaves, lastSave >> ]_vars

\* an answer given after searches, covering an unlimited provider and a
\* limited one with recorded uses
C23_Witness ==
    /\ ncalls >= 2
    /\ nsaves >= 1
    /\ stats # NoStats
    /\ Reports(stats, providers)
    /\ \E i, j \in 1..Len(providers) :
          /\ providers[i].limit = None
          /\ providers[j].limit # None
          /\ providers[j].used > 0
          /\ providers[j].used < providers[j].limit

\* ---- C24
\* a step in which _save_usage runs
Saves == nsaves' = nsaves + 1

\* C24: every snapshot _save_usage builds has the month of the clock at
\* the time of the write and a usage mapping whose keys are exactly the
\* ids of the providers with a limit, so no unlimited provider is in it;
\* what the write puts in the store is that snapshot (or, the write
\* failing, the old contents or a truncated file).
C24_PersistedLayout ==
    [][ Saves =>
          /\ lastSave'.status = "ok"
          /\ lastSave'.month = now
          /\ DOMAIN lastSave'.usage =
                { providers'[i].id : i \in { k \in 1..Len(providers') :
                                              providers'[k].limit # None } }
          /\ \A i \in 1..Len(providers') :
                providers'[i].limit = None =>
                    providers'[i].id \notin DOMAIN lastSave'.usage
          /\ file' \in {lastSave', file, BadData} ]_vars

\* a snapshot written in the second month by a manager that has an
\* unlimited and a limited provider
C24_Witness ==
    /\ nsaves >= 1
    /\ file = lastSave
    /\ file.month = 2
    /\ now = 2
    /\ \E i, j \in 1..Len(providers) :
          /\ providers[i].limit = None
          /\ providers[j].limit # None
          /\ DOMAIN file.usage = { providers[j].id }

\* ---- C25
\* the step that constructs the manager (and so runs _load_usage)
Constructs == ~constructed /\ constructed'

\* a step whose _save_usage did not get its snapshot into the store
SaveFailed == Saves /\ file' # lastSave'

Usable(p) == p.limit = None \/ p.used < p.limit

\* C25: a store that is missing or cannot be parsed loads as no prior
\* usage (all counters 0, nothing saved), and the request that constructed
\* the manager goes on to its selection; a save that fails is swallowed:
\* the recorded use stays in the in-memory counter and the call returns its
\* results; every selection is decided on the in-memory counters, whatever
\* the store holds.
C25_PersistenceFailure ==
    [][ /\ (Constructs /\ file.status # "ok") =>
              /\ providers' = config
              /\ nsaves' = nsaves
              /\ file' = file
              /\ (last'.via = "raised" => Exhausted(config))
        /\ (SaveFailed /\ constructed) =>
              /\ \E i \in 1..Len(providers) :
                    providers' = [providers EXCEPT ![i].used = @ + 1]
              /\ last'.via = "rr"
              /\ last'.results = "results"
        /\ (SaveFailed /\ ~constructed) =>
              /\ constructed'
              /\ providers' = config
        /\ Selects =>
              IF LastSel.idx = 0
              THEN Exhausted(providers')
              ELSE Usable(providers'[LastSel.idx]) ]_vars

\* a recorded use took a provider to its limit, the save failed and left
\* the older count in the store, and the next selection passed over the
\* provider
C25_Witness ==
    /\ nsaves >= 1
    /\ file.status = "ok"
    /\ file # lastSave
    /\ Len(selLog) >= 2
    /\ \E j \in 1..Len(providers) :
          /\ providers[j].limit # None
          /\ providers[j].used = providers[j].limit
          /\ UsageGet(file, providers[j].id) = providers[j].limit - 1
          /\ selLog[Len(selLog)].cursor % NProv = j - 1
          /\ selLog[Len(selLog)].idx # j

\* ---- C27
\* the first query of the process, without focus, has been dispatched; no
\* provider call failed and the selected provider returned results
FirstQueryServed ==
    /\ config = TwoProviders
    /\ ncalls = 1
    /\ qpc \notin {"init", "searching"}
    /\ last.mode = "quick"
    /\ last.via = "rr"
    /\ last.got = "results"

\* the answer was streamed to the end with the client present and the
\* Ollama stream ending normally
StreamedThrough ==
    /\ qpc = "done"
    /\ ~disconnected
    /\ stream[Len(stream)].kind = "eof"

\* C27: with registry [p1 unlimited, p2 limited], cursor 0, no failure and
\* no disconnect, the first query selects p1 by one round-robin selection,
\* the sources event carries the list p1 returned, no counter changes and
\* nothing is written to the ledger, and the events are sources, start,
\* one chunk per generator fragment with the fragment's text, done.
C27_EndToEnd ==
    FirstQueryServed =>
        /\ selLog = << [cursor |-> 0, idx |-> 1] >>
        /\ last.src = 1
        /\ providers[last.src].limit = None
        /\ current_index = 1
        /\ providers = config
        /\ nsaves = 0
        /\ file = NoData
        /\ events[1] = SourcesEvent(last.results)
        /\ StreamedThrough =>
              /\ events = << SourcesEvent(last.results), StartEvent >>
                          \o Chunks(Responses(stream)) \o << DoneEvent >>
              /\ frags = Responses(stream)

C27_Witness ==
    /\ FirstQueryServed
    /\ StreamedThrough
    /\ frags = << "A", "B", "A" >>
    /\ Len(events) = 6

\* ---- C28
\* the step yields one more event, of one of the types ts
Yielded(ts) ==
    /\ Len(events') = Len(events) + 1
    /\ events'[Len(events')].type \in ts

\* C28 (as claimed): every sources, start and chunk event is yielded after
\* a poll of the disconnect signal that found the client present, so a
\* client already gone when the response begins receives no event.
C28_PollBeforeEveryEvent ==
    [][ Yielded({"sources", "start", "chunk"}) => ~disconnected ]_vars

\* C28 (amended): the start event and every chunk event are yielded after
\* a poll that found the client present; the sources event is yielded
\* without a poll, so a client already gone when the response begins
\* receives the sources event and nothing after it.
C28_PollBeforeStartAndChunks ==
    [][ /\ Yielded({"start", "chunk"}) => ~disconnected
        /\ (qpc = "sources_ready" /\ disconnected) =>
              /\ qpc' = "cancelled"
              /\ events' = events
              /\ events = << SourcesEvent(last.results) >> ]_vars

\* the client left during the search and the response has ended
C28_Witness ==
    /\ discAt = 0
    /\ qpc = "cancelled"
    /\ events = << SourcesEvent(last.results) >>
    /\ gen = "unused"

\* ---- C29
\* the pipeline state a handler position stands for; the request that ends
\* with HTTP 503 or with the exception of search never opens a response
PState(q) ==
    IF q \in {"init", "searching"} THEN "INIT"
    ELSE IF q = "sources_ready" THEN "SOURCES_READY"
    ELSE IF q = "answering" THEN "ANSWERING"
    ELSE IF q = "done" THEN "DONE"
    ELSE IF q = "cancelled" THEN "CANCELLED"
    ELSE "NO_RESPONSE"

Transitions ==
    { << "INIT", "SOURCES_READY" >>,
      << "SOURCES_READY", "ANSWERING" >>,
      << "ANSWERING", "DONE" >>,
      << "SOURCES_READY", "CANCELLED" >>,
      << "ANSWERING", "CANCELLED" >> }

\* the step receives the next request
NewRequest == qpc # "searching" /\ qpc' = "searching"

\* C29: within one request the pipeline state changes only along INIT ->
\* SOURCES_READY -> ANSWERING -> DONE and from SOURCES_READY or ANSWERING
\* to CANCELLED (a request without sources leaves INIT without opening a
\* response); in CANCELLED and in DONE nothing changes any more: no event
\* is yielded and no state follows.
C29_StateMachine ==
    [][ ~NewRequest =>
          /\ PState(qpc') # PState(qpc) =>
                \/ << PState(qpc), PState(qpc') >> \in Transitions
                \/ PState(qpc) = "INIT" /\ PState(qpc') = "NO_RESPONSE"
          /\ PState(qpc) \in {"CANCELLED", "DONE", "NO_RESPONSE"} =>
                /\ qpc' = qpc
                /\ UNCHANGED << events, stream, frags, gen >> ]_vars

\* a response cancelled from ANSWERING by the interrupted Ollama call, the
\* client still connected
C29_Witness ==
    /\ qpc = "cancelled"
    /\ gen = "ended"
    /\ ~disconnected
    /\ Len(events) >= 3

\* ---- C30
\* the response is complete: done is the last event and every fragment
\* the generator yielded has its chunk, in order
Completed ==
    /\ qpc = "done"
    /\ HasDone
    /\ ChunksOf(events) = frags
    /\ Len(events) = Len(frags) + 3

\* C30: once the sources event has been sent (the dispatch returned a
\* non-empty list), the response is eventually complete: done is sent
\* after exactly one chunk per fragment, whether the Ollama stream ends
\* normally or with an error, unless the client disconnects or the Ollama
\* call is cancelled.
C30_NormalCompletion ==
    (qpc = "sources_ready") ~> (Completed \/ disconnected \/ StreamCancelled)

C30_Witness ==
    /\ Completed
    /\ ~disconnected
    /\ Len(frags) = 3
    /\ StreamBroke

\* ---- C31
\* the step's move of the round-robin cursor
Advance == current_index' - current_index

OverQuota(p) == p.limit # None /\ p.used >= p.limit

\* the provider the selection of this step finds k positions after the
\* cursor it started from
Visited(k) == providers'[((current_index + k) % Len(providers')) + 1]

\* the number of over-quota providers among those the selection of this
\* step went over
SkippedBy == Cardinality({k \in 0..(Advance - 1) : OverQuota(Visited(k))})

\* C31 (as stated): the cursor never decreases; over n >= 1 providers every
\* _get_next_provider call advances it by at least 1 and at most n, and by
\* exactly 1 plus the number of over-quota providers it skipped.
C31_CursorDiscipline ==
    [][ /\ current_index' >= current_index
        /\ (Selects /\ Len(providers') >= 1) =>
              /\ Advance >= 1
              /\ Advance <= Len(providers')
              /\ Advance = 1 + SkippedBy ]_vars

\* C31 (amended): the cursor never decreases; over n >= 1 providers every
\* _get_next_provider call advances it by at least 1 and at most n: by
\* exactly 1 plus the number of over-quota providers it skipped when it
\* returns a provider, and by exactly n, all n skipped, when it returns
\* none.
C31_CursorDisciplineReturned ==
    [][ /\ current_index' >= current_index
        /\ (Selects /\ Len(providers') >= 1) =>
              /\ Advance >= 1
              /\ Advance <= Len(providers')
              /\ LastSel.idx # 0 =>
                    /\ Advance = 1 + SkippedBy
                    /\ \A k \in 0..(Advance - 2) : OverQuota(Visited(k))
              /\ LastSel.idx = 0 =>
                    /\ Advance = Len(providers')
                    /\ SkippedBy = Len(providers') ]_vars

\* the last selection went over an over-quota provider and returned the
\* one after it: the cursor moved by two
C31_Witness ==
    /\ constructed
    /\ NProv >= 2
    /\ Len(selLog) > 0
    /\ selLog[Len(selLog)].idx # 0
    /\ current_index = selLog[Len(selLog)].cursor + 2
    /\ OverQuota(providers[(selLog[Len(selLog)].cursor % NProv) + 1])

\* ---- C32
HasUnlimited(provs) == \E i \in 1..Len(provs) : provs[i].limit = None

\* C32: when a provider without a limit is configured, every
\* _get_next_provider call returns a provider, unlimited or strictly under
\* its quota, and returns it from the loop: it is the provider under the
\* cursor at the last iteration, the first one from the starting cursor
\* that is not over quota; the final next(...) after the loop never
\* produces the result.
C32_Availability ==
    [][ (Selects /\ HasUnlimited(providers')) =>
            /\ LastSel.idx # 0
            /\ ~OverQuota(providers'[LastSel.idx])
            /\ Advance >= 1
            /\ LastSel.idx = ((current_index' - 1) % Len(providers')) + 1
            /\ \A k \in 0..(Advance - 2) : OverQuota(Visited(k)) ]_vars

\* a registry with SearXNG and an exhausted key: the last selection started
\* at the exhausted key and returned SearXNG, the next position
C32_Witness ==
    /\ constructed
    /\ HasUnlimited(providers)
    /\ Len(selLog) > 0
    /\ LET e == selLog[Len(selLog)] IN
       /\ OverQuota(providers[(e.cursor % NProv) + 1])
       /\ e.idx # 0
       /\ providers[e.idx].provider_type = "searxng"
       /\ current_index = e.cursor + 2

\* ---- C33
\* the cursor the selection after the j-th one started from (the present
\* cursor when the j-th is the last)
CursorAfter(j) ==
    IF j < Len(selLog) THEN selLog[j + 1].cursor ELSE current_index

\* C33: _get_next_provider has no suspension point, so under any
\* interleaving of overlapping requests each selection starts from the
\* cursor the selection before it left (the first from 0) and nothing else
\* moves the cursor: no two selections read the same cursor value, and the
\* providers handed out are those the cursor chain of a sequential run
\* hands out, the j-th being the provider just before the cursor the
\* (j+1)-th starts from.
C33_CursorAtomicity ==
    /\ [](NProv >= 1 =>
            \A j \in 1..Len(selLog) :
               /\ j = 1 => selLog[j].cursor = 0
               /\ selLog[j].cursor < CursorAfter(j)
               /\ CursorAfter(j) - selLog[j].cursor <= NProv
               /\ selLog[j].idx # 0 =>
                     selLog[j].idx = ((CursorAfter(j) - 1) % NProv) + 1)
    /\ [][ IF Selects
           THEN LastSel.cursor = current_index
           ELSE current_index' = current_index /\ selLog' = selLog ]_vars

\* two requests overlap, each waiting for the provider it was handed out:
\* they read different cursor values and hold different providers
C33_Witness ==
    /\ req[1].pc = "rr_wait"
    /\ req[2].pc = "rr_wait"
    /\ Len(selLog) = 2
    /\ selLog[1].cursor # selLog[2].cursor
    /\ req[1].provider # req[2].provider

\* ---- C34
\* the step is the round-robin provider's call of handler r raising
RRFailed(r) == Steps(r) /\ req[r].pc = "rr_wait" /\ Got(r) = "raise"

\* the step is a call of the fallback chain of handler r completing
FallbackStep(r) == Steps(r) /\ req[r].pc \in {"fb_searx_wait", "fb_alt_wait"}

\* C34: when the round-robin provider's call raises, no used counter is
\* incremented and nothing is saved; neither that step nor any step of the
\* fallback chain calls _get_next_provider or moves the cursor, so the
\* search call has advanced the cursor by its one selection only, however
\* many fallback providers it tries.
C34_FailureFrame ==
    [][ \A r \in Req : (RRFailed(r) \/ FallbackStep(r)) =>
            /\ providers' = providers
            /\ nsaves' = nsaves
            /\ lastSave' = lastSave
            /\ file' = file
            /\ current_index' = current_index
            /\ selLog' = selLog ]_vars

\* the single call of the run selected a quota-bearing provider whose call
\* raised, and an alternative provider answered: one selection, the cursor
\* after it, nothing saved and the failed provider's counter as loaded
C34_Witness ==
    /\ ncalls = 1
    /\ \A r \in Req : Free(r)
    /\ last.via = "fb_alt"
    /\ providers[last.provider].limit # None
    /\ providers[last.provider].used = 0
    /\ Len(selLog) = 1
    /\ current_index = selLog[1].cursor + 1
    /\ nsaves = 0

\* ---- C35
\* the providers the alternative-provider loop has a call for
Callable(j) == providers[j].provider_type \in {"tavily", "serper", "exa"}

\* C35: the alternative-provider scan ends at the first alternative whose
\* call returns without raising: search ends in that step and returns that
\* alternative's list, the empty list included, so no later provider is
\* called; an alternative whose call raises does not end the scan with its
\* result: the scan goes on to a later position or search ends with the
\* empty list of the exhausted chain.
C35_ScanStopRule ==
    [][ \A r \in Req : (Steps(r) /\ req[r].pc = "fb_alt_wait") =>
            IF Got(r) # "raise"
            THEN /\ Ends(r)
                 /\ last'.via = "fb_alt"
                 /\ last'.src = req[r].alt
                 /\ last'.results = Got(r)
            ELSE \/ req'[r].pc = "fb_alt_wait" /\ req'[r].alt > req[r].alt
                 \/ Ends(r) /\ last'.via = "none" ]_vars

\* search returned the empty list of an alternative provider although a
\* later provider of the registry was eligible and has a call in the loop
C35_Witness ==
    /\ \A r \in Req : Free(r)
    /\ last.via = "fb_alt"
    /\ last.got = "empty"
    /\ last.results = "empty"
    /\ \E j \in (last.src + 1)..NProv :
          Eligible(j, last.provider) /\ Callable(j)

\* ---- C36
\* the value the serialised result obj carries under key
JsonGet(obj, key) ==
    obj[CHOOSE j \in 1..Len(obj) : obj[j][1] = key][2]

\* the result a client reads back from the serialised result obj
Parsed(obj) ==
    [k \in { obj[j][1] : j \in 1..Len(obj) } |-> JsonGet(obj, k)]

\* C36: the list in the sources event is the list the dispatcher returned:
\* as many elements, each read back equal to the element at the same
\* position; the prompt holds one citation line per element, the line at
\* position i numbered i and carrying the title and snippet of element i;
\* the list itself is not changed on the way.
C36_SourceOrder ==
    /\ [](spc \in {"sent", "left", "prompted"} =>
            /\ sent.type = "sources"
            /\ Len(sent.sources) = Len(sources)
            /\ \A i \in 1..Len(sources) : Parsed(sent.sources[i]) = sources[i])
    /\ [](spc = "prompted" =>
            /\ Len(sources_text) = Len(sources)
            /\ \A i \in 1..Len(sources) :
                  /\ sources_text[i].number = i
                  /\ sources_text[i].title = sources[i].title
                  /\ sources_text[i].snippet = sources[i].snippet)
    /\ [][sources' = sources]_vars

\* a list of three results, the first and the last alike and the second
\* different, has been sent and put in the prompt
C36_Witness ==
    /\ spc = "prompted"
    /\ Len(sources) = 3
    /\ sources[1] = sources[3]
    /\ sources[1] # sources[2]
    /\ Len(sources_text) = 3

\* ---- C37
\* C37: a manager constructed in the month the store's snapshot carries
\* gets, for every quota-bearing provider, the counter stored under its id,
\* and 0 when the usage mapping has no entry for it; when the store holds
\* the snapshot the last _save_usage call wrote, these are exactly the
\* counters the process that saved held when it ended.
C37_SaveLoadRoundTrip ==
    [][ (Constructs /\ file.status = "ok" /\ file.month = now) =>
          /\ (nsaves > 0 /\ file = lastSave) =>
                /\ Len(providers') = Len(providers)
                /\ \A i \in Limited(providers') :
                      providers'[i].used = providers[i].used
          /\ \A i \in Limited(providers') :
                providers'[i].used =
                   IF providers'[i].id \in DOMAIN file.usage
                   THEN file.usage[providers'[i].id]
                   ELSE 0 ]_vars

\* a process recorded a use and saved it, ended, and the manager of the
\* next process, constructed in the same month and not yet asked for a
\* provider, holds the recorded use again
C37_Witness ==
    /\ constructed
    /\ current_index = 0
    /\ nsaves >= 1
    /\ file = lastSave
    /\ file.month = now
    /\ \E i \in Limited(providers) : providers[i].used = 1
    /\ \A r \in Req : Free(r)

====
